---- MODULE Spec2Model ----
(***************************************************************************)
(* RigidBodyRopes (CableAPI/APICable.py): the scene builder `create` and   *)
(* the two rope layouts it drives, as a state machine over the USD stage.  *)
(*                                                                         *)
(* Numbers.  The program computes in floating point.  Here a length is an  *)
(* integer number of quarter millimetres (4000 units = 1 m), an angle an   *)
(* integer number of degrees restricted to multiples of 30, and a          *)
(* trigonometric value is kept exactly as twice its value in Z[sqrt 3]:    *)
(* the pair <<a, b>> stands for a + b*sqrt(3).  Every float that is        *)
(* written to the stage as a coordinate is such a pair.                    *)
(***************************************************************************)
EXTENDS Integers, Sequences, FiniteSets, TLC

VARIABLES
    pc,         \* position of `create` in its body
    args,       \* the arguments of the call and the stage's metadata
    self,       \* the instance fields set by create (lines 60-117)
    stage,      \* the USD stage: prim path -> prim
    defineLog,  \* the prim paths in the order they were defined
    ropeInd,    \* the loop variable of the rope loop
    lastLink    \* the locals x, y, z of _createMultiRopes: <<>> while unbound

vars == <<pc, args, self, stage, defineLog, ropeInd, lastLink>>

(***************************************************************************)
(* Bounds of the model.                                                    *)
(***************************************************************************)
MaxRopes == 6
MaxLenSteps == 6
LenStep == 200
MaxMass == 2
MaxHeightSteps == 1
MaxElevSteps == 3

(***************************************************************************)
(* Exact arithmetic in Z[sqrt 3].                                          *)
(***************************************************************************)
R(n) == <<n, 0>>
RAdd(u, v) == <<u[1] + v[1], u[2] + v[2]>>
RMul(u, v) == <<u[1] * v[1] + 3 * u[2] * v[2], u[1] * v[2] + u[2] * v[1]>>
RNonNeg(u) ==
    \/ u[1] >= 0 /\ u[2] >= 0
    \/ u[1] >= 0 /\ u[2] < 0 /\ u[1] * u[1] >= 3 * u[2] * u[2]
    \/ u[1] < 0 /\ u[2] >= 0 /\ 3 * u[2] * u[2] >= u[1] * u[1]

\* twice the cosine of a multiple of 30 degrees
Cos2(deg) ==
    LET k == (deg % 360) \div 30
    IN  <<R(2), <<0, 1>>, R(1), R(0), R(-1), <<0, -1>>,
          R(-2), <<0, -1>>, R(-1), R(0), R(1), <<0, 1>>>>[k + 1]

\* twice the sine
Sin2(deg) == Cos2(deg + 270)

\* u * cos(deg), u * sin(deg): the products are integral for the lengths used
MulCos(u, deg) ==
    LET p == RMul(u, Cos2(deg)) IN <<p[1] \div 2, p[2] \div 2>>
MulSin(u, deg) ==
    LET p == RMul(u, Sin2(deg)) IN <<p[1] \div 2, p[2] \div 2>>

Vec3(x, y, z) == <<x, y, z>>
VecI(x, y, z) == <<R(x), R(y), R(z)>>

\* Gf.Quath(1.0): the identity rotation, the empty product of rotations
QuatIdentity == <<>>
\* q1 * q2
QuatMul(q1, q2) == q1 \o q2

(***************************************************************************)
(* Helper functions (lines 601-658).                                       *)
(***************************************************************************)
\* the rotation by `angle` about `axis`, kept as the axis and the angle; for
\* angle 0 the quaternion is (cos 0, sin 0 * axis) = (1, 0, 0, 0), the identity
calculate_orientation(angle, axis) ==
    IF angle = 0 THEN QuatIdentity ELSE <<[axis |-> axis, angle |-> angle]>>

\* int(a / b) of Python: truncation towards zero
IntDiv(a, b) == IF a >= 0 THEN a \div b ELSE -((-a) \div b)

RopeName(i) == "Rope" \o ToString(i)
BoxName(i) == "box" \o ToString(i) \o "Actor"

Define(st, path, prim) == (path :> prim) @@ st
Defined(st, path) == path \in DOMAIN st
Xform == [type |-> "Xform"]

(***************************************************************************)
(* Program constants, in model units.                                      *)
(***************************************************************************)
payloadRadius == 960          \* 0.24 m
linkHalfLength == 240         \* 0.06 m
linkRadius == 80              \* 0.02 m
ropeSpacing == 60000          \* 15.0
coneAngleLimit == 160         \* degrees
slideLimit == 400             \* 0.1 m
Gravity == 981                \* 9.81, in 0.01 m/s^2: forces are in 0.01 N
slide_stiffness == 100000     \* 1e5
slide_damping == 1000         \* 1e3
LimitStiffnessFactor == 11
tableThickness == 24000       \* 6.0
boxSize == 48000              \* 12.0
FullTurn == 360               \* 2 * math.pi
SlideLow == -4000             \* CreateLowAttr(-1)
SlideHigh == 40               \* CreateHighAttr(0.01)
ContactDistanceUm == 100      \* 0.0001 m, in micrometres
CapsuleMassMg == 8000         \* 0.008 kg, in milligrams

UpAxes == {"X", "Y", "Z"}
\* UsdGeom.GetStageMetersPerUnit(stage) * 100: a stage in centimetres or metres
StageUnits == {1, 100}
\* the rope counts whose azimuths i * 360 / N are multiples of 30 degrees
RopeCounts == {n \in 0..MaxRopes : n < 2 \/ 12 % n = 0}
\* positive rope lengths, the shortest ones below one link pitch
RopeLengths == {k * LenStep : k \in 1..MaxLenSteps}
LoadHeights == {4000 * k : k \in 1..MaxHeightSteps}
Elevations == {30 * k : k \in 0..MaxElevSteps}

Args ==
    [num_ropes : RopeCounts, rope_length : RopeLengths,
     payload_mass : 1..MaxMass, load_height : LoadHeights,
     elevation_angle : Elevations, upAxis : UpAxes, metersPerUnit100 : StageUnits]

(***************************************************************************)
(* create, lines 59-117: the configuration.                                *)
(***************************************************************************)
\* x * self._scaleFactor, the factor being 1 / (metersPerUnit * 100)
TimesScale(x, s) == x \div s.scaleFactorInv

\* lines 111-117, as 1-based indices
Orientation(upAxis) ==
    CASE upAxis = "Z" -> <<1, 2, 3>>
      [] upAxis = "Y" -> <<2, 3, 1>>
      [] upAxis = "X" -> <<3, 2, 1>>

\* fault variant of line 92: the factor divides instead of multiplying
SlideStiffnessLimit_Divided(k) == k \div LimitStiffnessFactor
\* line 92
SlideStiffnessLimit(k) == LimitStiffnessFactor * k
\* line 93
SlideDampingLimit(c) == c
\* line 86
SlideMaxforceLimit(mass) == 10 * mass * Gravity

\* line 101
TableHeight(a) ==
    a.load_height + (payloadRadius \div 4) \div 2 + a.rope_length
        + tableThickness \div a.metersPerUnit100

Config(a) ==
    [payloadRadius |-> payloadRadius,
     payloadHight |-> payloadRadius \div 4,
     payloadMass |-> a.payload_mass,
     initLoadHeight |-> a.load_height,
     payloadPos |-> VecI(0, 0, a.load_height),
     linkHalfLength |-> linkHalfLength,
     linkRadius |-> linkRadius,
     ropeLength |-> a.rope_length,
     numRopes |-> a.num_ropes,
     ropeSpacing |-> ropeSpacing,
     coneAngleLimit |-> coneAngleLimit,
     slideLimit |-> slideLimit,
     slideMaxforceLimit |-> SlideMaxforceLimit(a.payload_mass),
     slide_stiffness |-> slide_stiffness,
     slide_damping |-> slide_damping,
     slide_stiffness_limit |-> SlideStiffnessLimit(slide_stiffness),
     slide_damping_limit |-> SlideDampingLimit(slide_damping),
     scaleFactorInv |-> a.metersPerUnit100,
     tableThickness |-> tableThickness,
     boxSize |-> boxSize,
     tableHeight |-> TableHeight(a),
     floorOffset |-> 0 - TableHeight(a),
     tableSurfaceDim |-> <<800000, 400000>>,
     upAxis |-> a.upAxis,
     orientation |-> Orientation(a.upAxis)]

payloadXform == <<"CommonPayload">>
payloadPath == <<"CommonPayload", "Payload">>
tableXform == <<"Table">>
tableTopPath == <<"Table", "tableTopActor">>

\* line 123: the layout is chosen from num_ropes
SelectLayout(num_ropes) == IF num_ropes < 2 THEN "vertical" ELSE "radial"

(***************************************************************************)
(* Scene objects, lines 133-207.                                           *)
(***************************************************************************)
\* lines 644-648
orient_dim(vec, s) == [i \in 1..3 |-> R(TimesScale(vec[s.orientation[i]], s))]

\* lines 621-642: the scopes get_path defines, root first
get_path_new(st, rootPath, primPath) ==
    LET root == <<rootPath>>
        leaf == <<rootPath, primPath>>
    IN  (IF Defined(st, root) THEN <<>> ELSE <<root>>)
            \o (IF Defined(st, leaf) THEN <<>> ELSE <<leaf>>)

\* lines 133-149
Capsule(s, axis) ==
    [type |-> "Capsule", height |-> s.linkHalfLength, radius |-> s.linkRadius,
     axis |-> axis, rigidBody |-> TRUE, massMg |-> CapsuleMassMg, collision |-> TRUE]

\* lines 151-169
Payload(s) ==
    [type |-> "Cylinder", translate |-> s.payloadPos, radius |-> s.payloadRadius,
     height |-> s.payloadHight, rigidBodyEnabled |-> TRUE, mass |-> s.payloadMass,
     collision |-> TRUE]

\* lines 171-196: the cube create_box defines
Box(s, dimensions, position, orientation) ==
    [type |-> "Cube", translate |-> position, orient |-> orientation,
     scale |-> orient_dim(dimensions, s), size |-> 1,
     rigidBodyEnabled |-> FALSE, collision |-> TRUE]

\* lines 198-207: the table top
TableDimensions(s) == <<s.tableSurfaceDim[1], s.tableSurfaceDim[2], s.tableThickness>>
TablePosition(s) ==
    VecI(0, 0, s.tableHeight - TimesScale(s.tableThickness, s) \div 2)

(***************************************************************************)
(* Joint archetypes, lines 212-280.  A joint prim carries, per degree of   *)
(* freedom, the LimitAPI (with or without a low/high range), the           *)
(* PhysxLimitAPI and the DriveAPI applied to it.                           *)
(***************************************************************************)
\* lines 213-225
SlideDOF(axis) ==
    IF axis = "Z" THEN <<"transZ">> ELSE IF axis = "X" THEN <<"transX">> ELSE <<"transY">>
\* fault variant of line 224: the locked pair of the "Z" branch pasted into
\* the last branch
LockedDOFs_Pasted(axis) ==
    IF axis = "Z" THEN <<"transX", "transY">>
    ELSE IF axis = "X" THEN <<"transY", "transZ">> ELSE <<"transX", "transY">>
LockedDOFs(axis) ==
    IF axis = "Z" THEN <<"transX", "transY">>
    ELSE IF axis = "X" THEN <<"transY", "transZ">> ELSE <<"transX", "transZ">>
RotatedDOFs(axis) ==
    IF axis = "Z" THEN <<"rotX", "rotY", "rotZ">>
    ELSE IF axis = "X" THEN <<"rotY", "rotZ", "rotX">> ELSE <<"rotX", "rotZ", "rotY">>

SeqRange(q) == {q[i] : i \in 1..Len(q)}
Limit(low, high) == [hasRange |-> TRUE, low |-> low, high |-> high]
NoRange == [hasRange |-> FALSE, low |-> 0, high |-> 0]

\* lines 237-240
CablePhysxLimit(s) ==
    [stiffness |-> s.slide_stiffness_limit, damping |-> s.slide_damping_limit,
     contactDistanceUm |-> ContactDistanceUm]
\* lines 242-246
CableDrive(s) ==
    [type |-> "force", maxForce |-> s.slideMaxforceLimit,
     damping |-> s.slide_damping, stiffness |-> s.slide_stiffness]

\* lines 212-258
CableJoint(s, axis) ==
    [type |-> "Joint",
     limit |-> [d \in SeqRange(SlideDOF(axis)) \cup SeqRange(LockedDOFs(axis))
                        \cup SeqRange(RotatedDOFs(axis)) |->
                    IF d \in SeqRange(RotatedDOFs(axis)) THEN NoRange
                    ELSE IF d \in SeqRange(LockedDOFs(axis)) THEN Limit(0, 0)
                    ELSE Limit(SlideLow, SlideHigh)],
     physxLimit |-> [d \in SeqRange(SlideDOF(axis)) |-> CablePhysxLimit(s)],
     drive |-> [d \in SeqRange(SlideDOF(axis)) |-> CableDrive(s)]]

\* lines 260-267
FixJoint ==
    [type |-> "Joint",
     limit |-> [d \in {"transX", "transY", "transZ", "rotX", "rotY", "rotZ"} |->
                    Limit(1, -1)],
     physxLimit |-> <<>>,
     drive |-> <<>>]

\* lines 269-280
UniJoint(s) ==
    [type |-> "Joint",
     limit |-> [d \in {"transX", "transY", "transZ", "rotZ", "rotX", "rotY"} |->
                    IF d \in {"rotX", "rotY"}
                    THEN Limit(-s.coneAngleLimit, s.coneAngleLimit)
                    ELSE Limit(0, 0)],
     physxLimit |-> <<>>,
     drive |-> <<>>]

(***************************************************************************)
(* What both rope builders share.                                          *)
(***************************************************************************)
\* lines 286 and 428
LinkLength(s) == s.linkHalfLength + 2 * s.linkRadius
\* lines 287 and 429
NumLinks(s) == IntDiv(s.ropeLength, LinkLength(s))
\* lines 289 and 431
PayloadHightHalf(s) == s.payloadHight \div 2
\* lines 290 and 432
CapsuleHalf(s) == LinkLength(s) \div 2

\* the list a loop `for k in range(n)` builds by appending v
Repeat(n, v) == [k \in 1..n |-> v]

ScopePath(i) == <<RopeName(i)>>
InstancerPath(i) == <<RopeName(i), "rigidBodyInstancer">>
CapsulePath(i) == <<RopeName(i), "rigidBodyInstancer", "capsule">>
JointInstancerPath(i) == <<RopeName(i), "jointInstancer">>
ChainJointPath(i) == <<RopeName(i), "jointInstancer", "chainJoints">>
PayloadAttachPath(i) == <<RopeName(i), "ropePayloadCon">>
PayloadJointPath(i) == <<RopeName(i), "ropePayloadCon", "PayloadJoint">>
TableAttachPath(i) == <<RopeName(i), "ropeTableCon">>
TableJointPath(i) == <<RopeName(i), "ropeTableCon", "TableJoint">>
BoxPath(i) == <<RopeName(i), BoxName(i)>>
BoxAttachPath(i) == <<RopeName(i), "ropeBoxCon">>
BoxJointPath(i) == <<RopeName(i), "ropeBoxCon", "BoxJoint">>

\* lines 303, 323-328 and 447, 479-484: the link collection of one rope
PointInstancer(capsulePath, meshIndices, positions, orientations) ==
    [type |-> "PointInstancer", prototypes |-> <<capsulePath>>,
     protoIndices |-> meshIndices, positions |-> positions,
     orientations |-> orientations]

\* a PhysxPhysicsJointInstancer with its relationships and its seven arrays
JointInstancer(proto, body0, body1, protoIdx, b0Idx, b1Idx, pos0, pos1, rot0, rot1) ==
    [type |-> "PhysxPhysicsJointInstancer",
     prototypes |-> <<proto>>, body0s |-> <<body0>>, body1s |-> <<body1>>,
     protoIndices |-> protoIdx, body0Indices |-> b0Idx, body1Indices |-> b1Idx,
     localPos0s |-> pos0, localPos1s |-> pos1,
     localRot0s |-> rot0, localRot1s |-> rot1]

\* lines 346-351 and 503-508: the loop over range(numLinks - 1)
ChainProtoIndices(numLinks) == Repeat(numLinks - 1, 0)
\* fault variant of line 347: body0 of chain joint k taken as link k + 1
ChainBody0Indices_FromOne(numLinks) == [k \in 1..(numLinks - 1) |-> k]
ChainBody0Indices(numLinks) == [k \in 1..(numLinks - 1) |-> k - 1]
\* fault variant of line 346: body1 indices collected over range(numLinks)
ChainBody1Indices_AllLinks(numLinks) == [k \in 1..numLinks |-> k]
ChainBody1Indices(numLinks) == [k \in 1..(numLinks - 1) |-> k]
ChainRots(numLinks) == Repeat(numLinks - 1, QuatIdentity)

\* Gf.Vec3f(0, 0, d) of the vertical builder, Gf.Vec3f(d, 0, 0) of the radial
AlongZ(d) == VecI(0, 0, d)
AlongX(d) == VecI(d, 0, 0)
Along(axis, d) == IF axis = "Z" THEN AlongZ(d) ELSE AlongX(d)

\* lines 337-376 (anchors along Z) and 494-533 (anchors along X): the chain
\* joint group
ChainJoints(s, i, axis) ==
    JointInstancer(ChainJointPath(i), InstancerPath(i), InstancerPath(i),
        ChainProtoIndices(NumLinks(s)),
        ChainBody0Indices(NumLinks(s)), ChainBody1Indices(NumLinks(s)),
        Repeat(NumLinks(s) - 1, Along(axis, CapsuleHalf(s))),
        Repeat(NumLinks(s) - 1, Along(axis, -CapsuleHalf(s))),
        ChainRots(NumLinks(s)), ChainRots(NumLinks(s)))

(***************************************************************************)
(* _createVerticalRopes, lines 285-423.                                    *)
(***************************************************************************)
\* line 294
VYStart(s) == -(s.numRopes \div 2) * s.ropeSpacing
\* line 295
VZStart(s) == s.initLoadHeight + PayloadHightHalf(s) + CapsuleHalf(s)

\* lines 313-320
VLinkPosition(s, i, linkInd) ==
    VecI(0, VYStart(s) + i * s.ropeSpacing, VZStart(s) + linkInd * LinkLength(s))
VLinkPositions(s, i) == [k \in 1..NumLinks(s) |-> VLinkPosition(s, i, k - 1)]

\* lines 302-328
VLinkInstancer(s, i) ==
    PointInstancer(CapsulePath(i), Repeat(NumLinks(s), 0), VLinkPositions(s, i),
                   Repeat(NumLinks(s), QuatIdentity))

\* lines 380-400
VPayloadAttach(s, i) ==
    JointInstancer(PayloadJointPath(i), payloadPath, InstancerPath(i),
        <<0>>, <<0>>, <<0>>,
        <<AlongZ(PayloadHightHalf(s))>>, <<AlongZ(-CapsuleHalf(s))>>,
        <<QuatIdentity>>, <<QuatIdentity>>)

\* lines 403-423
VTableAttach(s, i) ==
    JointInstancer(TableJointPath(i), InstancerPath(i), tableTopPath,
        <<0>>, <<NumLinks(s) - 1>>, <<0>>,
        <<AlongZ(CapsuleHalf(s))>>,
        <<AlongZ(-(TimesScale(s.tableThickness, s) \div 2))>>,
        <<QuatIdentity>>, <<QuatIdentity>>)

(***************************************************************************)
(* _createMultiRopes, lines 426-597.                                       *)
(***************************************************************************)
\* line 427
translationAxis == "X"
\* line 435
AngleIncrement(s) == FullTurn \div s.numRopes
\* line 457
Angle(s, i) == AngleIncrement(s) * i

\* fault variant of lines 458-459: the half link is not projected by the
\* elevation
MStartPos_Flat(s, el, i) ==
    LET reach == R(s.payloadRadius + CapsuleHalf(s))
    IN  Vec3(MulCos(reach, Angle(s, i)),
             MulSin(reach, Angle(s, i)),
             RAdd(R(s.initLoadHeight), MulSin(R(CapsuleHalf(s)), el)))

\* lines 458-460
MStartPos(s, el, i) ==
    LET reach == RAdd(R(s.payloadRadius), MulCos(R(CapsuleHalf(s)), el))
    IN  Vec3(MulCos(reach, Angle(s, i)),
             MulSin(reach, Angle(s, i)),
             RAdd(R(s.initLoadHeight), MulSin(R(CapsuleHalf(s)), el)))

\* d * (cos(angle) * cos_elevation, sin(angle) * cos_elevation, sin_elevation)
MAlongRope(s, el, i, d) ==
    Vec3(MulCos(MulCos(R(d), Angle(s, i)), el),
         MulCos(MulSin(R(d), Angle(s, i)), el),
         MulSin(R(d), el))

VecAdd(u, v) == Vec3(RAdd(u[1], v[1]), RAdd(u[2], v[2]), RAdd(u[3], v[3]))

\* fault variant of line 467: the product taken as q_y * q_z
MOrientation_PitchFirst(s, el, i) ==
    QuatMul(calculate_orientation(el, <<0, -1, 0>>),
            calculate_orientation(Angle(s, i), <<0, 0, 1>>))
\* lines 463-467
MOrientation(s, el, i) ==
    QuatMul(calculate_orientation(Angle(s, i), <<0, 0, 1>>),
            calculate_orientation(el, <<0, -1, 0>>))

\* lines 470-476
MLinkPosition(s, el, i, linkInd) ==
    VecAdd(MStartPos(s, el, i), MAlongRope(s, el, i, linkInd * LinkLength(s)))
MLinkPositions(s, el, i) == [k \in 1..NumLinks(s) |-> MLinkPosition(s, el, i, k - 1)]

\* lines 446-484
MLinkInstancer(s, el, i) ==
    PointInstancer(CapsulePath(i), Repeat(NumLinks(s), 0), MLinkPositions(s, el, i),
                   Repeat(NumLinks(s), MOrientation(s, el, i)))

\* fault variant of lines 470-475: x, y, z keep the values of the first rope
\* that bound them
MLastLink_KeepFirst(s, el, i, before) ==
    IF before # <<>> THEN before
    ELSE IF NumLinks(s) >= 1
    THEN <<MLinkPosition(s, el, i, NumLinks(s) - 1)>>
    ELSE before

\* the locals x, y, z after the link loop of rope i: rebound by every pass of
\* the loop, left as they were when the loop body never runs
MLastLink(s, el, i, before) ==
    IF NumLinks(s) >= 1
    THEN <<MLinkPosition(s, el, i, NumLinks(s) - 1)>>
    ELSE before

\* lines 536-561
MPayloadAttach(s, el, i) ==
    JointInstancer(PayloadJointPath(i), payloadPath, InstancerPath(i),
        <<0>>, <<0>>, <<0>>,
        <<Vec3(MulCos(R(s.payloadRadius), Angle(s, i)),
               MulSin(R(s.payloadRadius), Angle(s, i)), R(0))>>,
        <<AlongX(-CapsuleHalf(s))>>,
        <<MOrientation(s, el, i)>>, <<QuatIdentity>>)

\* lines 567-575: the box at the end of rope i, placed from the locals x, y, z
MBox(s, el, i, xyz) ==
    Box(s, <<s.boxSize, s.boxSize, s.boxSize>>,
        VecAdd(xyz, MAlongRope(s, el, i,
                        CapsuleHalf(s) + TimesScale(s.boxSize, s) \div 2)),
        MOrientation(s, el, i))

\* lines 577-597
MBoxAttach(s, i) ==
    JointInstancer(BoxJointPath(i), InstancerPath(i), BoxPath(i),
        <<0>>, <<NumLinks(s) - 1>>, <<0>>,
        <<AlongX(CapsuleHalf(s))>>,
        <<AlongX(-(TimesScale(s.boxSize, s) \div 2))>>,
        <<QuatIdentity>>, <<QuatIdentity>>)

(***************************************************************************)
(* The state machine: one call of create on an empty stage.                *)
(***************************************************************************)
Init ==
    /\ pc = "create"
    /\ args \in Args
    /\ self = <<>>
    /\ stage = <<>>
    /\ defineLog = <<>>
    /\ ropeInd = 0
    /\ lastLink = <<>>

\* `for ropeInd in range(self._numRopes)`: the next pass, or the end
RopeLoop(s, i, body) == IF i < s.numRopes THEN body ELSE "done"

\* lines 59-117
Create ==
    /\ pc = "create"
    /\ self' = Config(args)
    /\ pc' = "payload"
    /\ UNCHANGED <<args, stage, defineLog, ropeInd, lastLink>>

\* lines 121-123 and 151-169
CreatePayload ==
    /\ pc = "payload"
    /\ stage' = Define(Define(stage, payloadXform, Xform), payloadPath, Payload(self))
    /\ defineLog' = defineLog \o <<payloadXform, payloadPath>>
    /\ pc' = IF SelectLayout(args.num_ropes) = "vertical"
             THEN "table" ELSE RopeLoop(self, 0, "mLinks")
    /\ UNCHANGED <<args, self, ropeInd, lastLink>>

\* line 125 and lines 198-207, 171-196
CreateTable ==
    /\ pc = "table"
    /\ stage' = Define(stage @@ [q \in SeqRange(get_path_new(stage, "Table", "tableTopActor"))
                                    |-> Xform],
                       tableTopPath,
                       Box(self, TableDimensions(self), TablePosition(self), QuatIdentity))
    /\ defineLog' = defineLog \o get_path_new(stage, "Table", "tableTopActor")
                        \o <<tableTopPath>>
    /\ pc' = RopeLoop(self, 0, "vLinks")
    /\ UNCHANGED <<args, self, ropeInd, lastLink>>

\* lines 299-328
VLinks ==
    /\ pc = "vLinks"
    /\ stage' = Define(Define(Define(stage, ScopePath(ropeInd), Xform),
                              InstancerPath(ropeInd), VLinkInstancer(self, ropeInd)),
                       CapsulePath(ropeInd), Capsule(self, "Z"))
    /\ defineLog' = defineLog
            \o <<ScopePath(ropeInd), InstancerPath(ropeInd), CapsulePath(ropeInd)>>
    /\ pc' = "vChain"
    /\ UNCHANGED <<args, self, ropeInd, lastLink>>

\* lines 331-376
VChain ==
    /\ pc = "vChain"
    /\ stage' = Define(Define(stage, JointInstancerPath(ropeInd),
                              ChainJoints(self, ropeInd, "Z")),
                       ChainJointPath(ropeInd), CableJoint(self, "Z"))
    /\ defineLog' = defineLog \o <<JointInstancerPath(ropeInd), ChainJointPath(ropeInd)>>
    /\ pc' = "vPayloadCon"
    /\ UNCHANGED <<args, self, ropeInd, lastLink>>

\* lines 380-400
VPayloadCon ==
    /\ pc = "vPayloadCon"
    /\ stage' = Define(Define(stage, PayloadAttachPath(ropeInd),
                              VPayloadAttach(self, ropeInd)),
                       PayloadJointPath(ropeInd), CableJoint(self, "Z"))
    /\ defineLog' = defineLog \o <<PayloadAttachPath(ropeInd), PayloadJointPath(ropeInd)>>
    /\ pc' = "vTableCon"
    /\ UNCHANGED <<args, self, ropeInd, lastLink>>

\* lines 403-423
VTableCon ==
    /\ pc = "vTableCon"
    /\ stage' = Define(Define(stage, TableAttachPath(ropeInd),
                              VTableAttach(self, ropeInd)),
                       TableJointPath(ropeInd), UniJoint(self))
    /\ defineLog' = defineLog \o <<TableAttachPath(ropeInd), TableJointPath(ropeInd)>>
    /\ ropeInd' = ropeInd + 1
    /\ pc' = RopeLoop(self, ropeInd + 1, "vLinks")
    /\ UNCHANGED <<args, self, lastLink>>

\* lines 443-484
MLinks ==
    /\ pc = "mLinks"
    /\ stage' = Define(Define(Define(stage, ScopePath(ropeInd), Xform),
                              InstancerPath(ropeInd),
                              MLinkInstancer(self, args.elevation_angle, ropeInd)),
                       CapsulePath(ropeInd), Capsule(self, translationAxis))
    /\ defineLog' = defineLog
            \o <<ScopePath(ropeInd), InstancerPath(ropeInd), CapsulePath(ropeInd)>>
    /\ lastLink' = MLastLink(self, args.elevation_angle, ropeInd, lastLink)
    /\ pc' = "mChain"
    /\ UNCHANGED <<args, self, ropeInd>>

\* lines 487-533
MChain ==
    /\ pc = "mChain"
    /\ stage' = Define(Define(stage, JointInstancerPath(ropeInd),
                              ChainJoints(self, ropeInd, "X")),
                       ChainJointPath(ropeInd), CableJoint(self, translationAxis))
    /\ defineLog' = defineLog \o <<JointInstancerPath(ropeInd), ChainJointPath(ropeInd)>>
    /\ pc' = "mPayloadCon"
    /\ UNCHANGED <<args, self, ropeInd, lastLink>>

\* lines 536-561: the payload joint is created with the default axis, "Z"
MPayloadCon ==
    /\ pc = "mPayloadCon"
    /\ stage' = Define(Define(stage, PayloadAttachPath(ropeInd),
                              MPayloadAttach(self, args.elevation_angle, ropeInd)),
                       PayloadJointPath(ropeInd), CableJoint(self, "Z"))
    /\ defineLog' = defineLog \o <<PayloadAttachPath(ropeInd), PayloadJointPath(ropeInd)>>
    /\ pc' = "mBox"
    /\ UNCHANGED <<args, self, ropeInd, lastLink>>

\* lines 564-575: x, y, z are read before create_box is entered; they are
\* unbound when no pass of a link loop has run, and create ends with the
\* UnboundLocalError
MCreateBoxFails ==
    /\ pc = "mBox"
    /\ lastLink = <<>>
    /\ pc' = "failed"
    /\ UNCHANGED <<args, self, stage, defineLog, ropeInd, lastLink>>

\* fault variant of lines 567-575: the create_box call left out before the
\* joint group of the box is emitted
MCreateBox_Deferred ==
    /\ pc = "mBox"
    /\ lastLink # <<>>
    /\ pc' = "mBoxCon"
    /\ UNCHANGED <<args, self, stage, defineLog, ropeInd, lastLink>>
MCreateBox ==
    /\ pc = "mBox"
    /\ lastLink # <<>>
    /\ stage' = Define(stage @@ [q \in SeqRange(get_path_new(stage, RopeName(ropeInd),
                                                             BoxName(ropeInd)))
                                    |-> Xform],
                       BoxPath(ropeInd),
                       MBox(self, args.elevation_angle, ropeInd, lastLink[1]))
    /\ defineLog' = defineLog
            \o get_path_new(stage, RopeName(ropeInd), BoxName(ropeInd))
            \o <<BoxPath(ropeInd)>>
    /\ pc' = "mBoxCon"
    /\ UNCHANGED <<args, self, ropeInd, lastLink>>

\* lines 577-597
MBoxCon ==
    /\ pc = "mBoxCon"
    /\ stage' = Define(Define(stage, BoxAttachPath(ropeInd), MBoxAttach(self, ropeInd)),
                       BoxJointPath(ropeInd), UniJoint(self))
    /\ defineLog' = defineLog \o <<BoxAttachPath(ropeInd), BoxJointPath(ropeInd)>>
    /\ ropeInd' = ropeInd + 1
    /\ pc' = RopeLoop(self, ropeInd + 1, "mLinks")
    /\ UNCHANGED <<args, self, lastLink>>

Next ==
    \/ Create
    \/ CreatePayload
    \/ CreateTable
    \/ VLinks
    \/ VChain
    \/ VPayloadCon
    \/ VTableCon
    \/ MLinks
    \/ MChain
    \/ MPayloadCon
    \/ MCreateBoxFails
    \/ MCreateBox
    \/ MBoxCon

Spec == Init /\ [][Next]_vars

(***************************************************************************)
(* Reading the stage.                                                      *)
(***************************************************************************)
Configured == pc # "create"
RopeIndices == 0..MaxRopes
\* the ropes with a scope on the stage
RopesOnStage == {i \in RopeIndices : Defined(stage, ScopePath(i))}
\* the path of the structure-attachment joint group of rope i, if emitted
StructureAttachPaths(i) ==
    {q \in {TableAttachPath(i), BoxAttachPath(i)} : Defined(stage, q)}
\* the ropes whose builder pass ran to its end
AssembliesBuilt == {i \in RopeIndices : StructureAttachPaths(i) # {}}
\* the joint groups of rope i that are on the stage
JointGroupPaths(i) ==
    {q \in {JointInstancerPath(i), PayloadAttachPath(i),
            TableAttachPath(i), BoxAttachPath(i)} : Defined(stage, q)}
\* the link indices a joint group writes: both sides of a chain group, body1
\* of a payload attachment, body0 of a structure attachment
LinkIndicesOf(i, q) ==
    IF q = JointInstancerPath(i)
    THEN SeqRange(stage[q].body0Indices) \cup SeqRange(stage[q].body1Indices)
    ELSE IF q = PayloadAttachPath(i)
    THEN SeqRange(stage[q].body1Indices)
    ELSE SeqRange(stage[q].body0Indices)
TablesOnStage == {q \in {tableTopPath} : Defined(stage, q)}
BoxesOnStage == {i \in RopeIndices : Defined(stage, BoxPath(i))}

(***************************************************************************)
(* C1.  For a positive rope_length, numLinks is floor(rope_length / pitch) *)
(* with pitch = linkHalfLength + 2 * linkRadius, and a call whose numLinks *)
(* would be 0 builds no assembly.                                          *)
(***************************************************************************)
C1_NumLinksEnforced ==
    (Configured /\ args.rope_length > 0) =>
        /\ NumLinks(self) = args.rope_length \div (linkHalfLength + 2 * linkRadius)
        /\ (args.rope_length \div (linkHalfLength + 2 * linkRadius) < 1
                => RopesOnStage = {})

(***************************************************************************)
(* C2.  Every assembly built has exactly numLinks - 1 chain joints, one    *)
(* payload-attachment joint and one structure-attachment joint; with one   *)
(* link there is no chain joint and both attachments reference link 0.     *)
(***************************************************************************)
C2_JointCounts ==
    \A i \in AssembliesBuilt :
        /\ Len(stage[JointInstancerPath(i)].body0Indices) = NumLinks(self) - 1
        /\ Len(stage[PayloadAttachPath(i)].body0Indices) = 1
        /\ \A q \in StructureAttachPaths(i) : Len(stage[q].body0Indices) = 1
        /\ Cardinality(StructureAttachPaths(i)) = 1
        /\ NumLinks(self) = 1 =>
            /\ stage[JointInstancerPath(i)].body0Indices = <<>>
            /\ stage[PayloadAttachPath(i)].body1Indices = <<0>>
            /\ \A q \in StructureAttachPaths(i) : stage[q].body0Indices = <<0>>

(***************************************************************************)
(* C3.  Every link index written to a joint body-index array of an         *)
(* assembly lies in [0, numLinks).                                         *)
(***************************************************************************)
C3_LinkIndicesInRange ==
    \A i \in RopesOnStage : \A q \in JointGroupPaths(i) :
        \A k \in LinkIndicesOf(i, q) : 0 <= k /\ k < NumLinks(self)

(***************************************************************************)
(* C4.  When create returns: with num_ropes < 2 there is exactly one       *)
(* assembly, attached to the one table, and no box; with num_ropes >= 2    *)
(* there are num_ropes assemblies, each attached to its own box, and no    *)
(* table.                                                                  *)
(***************************************************************************)
C4_LayoutByRopeCount ==
    pc = "done" =>
        IF args.num_ropes < 2
        THEN /\ Cardinality(AssembliesBuilt) = 1
             /\ Cardinality(TablesOnStage) = 1
             /\ BoxesOnStage = {}
             /\ \A i \in AssembliesBuilt :
                    /\ StructureAttachPaths(i) = {TableAttachPath(i)}
                    /\ stage[TableAttachPath(i)].body1s = <<tableTopPath>>
        ELSE /\ Cardinality(AssembliesBuilt) = args.num_ropes
             /\ TablesOnStage = {}
             /\ BoxesOnStage = AssembliesBuilt
             /\ \A i \in AssembliesBuilt :
                    /\ StructureAttachPaths(i) = {BoxAttachPath(i)}
                    /\ stage[BoxAttachPath(i)].body1s = <<BoxPath(i)>>

(***************************************************************************)
(* C5.  Configuration errors are detected before anything is emitted:      *)
(* whenever create has failed the stage holds nothing of that call, no     *)
(* partial assembly exists when create has ended, and a call that emitted  *)
(* an assembly had no configuration error (a derived numLinks below 1).    *)
(***************************************************************************)
ConfigurationError == Configured /\ NumLinks(self) < 1
Ended == pc \in {"done", "failed"}
\* C5: a failed create leaves nothing, no partial assembly, no undetected error
C5_FailFast ==
    /\ pc = "failed" => stage = <<>>
    /\ Ended => RopesOnStage \subseteq AssembliesBuilt
    /\ (Ended /\ RopesOnStage # {}) => ~ConfigurationError

(***************************************************************************)
(* C6.  What is emitted for rope i depends on the configuration and on i   *)
(* alone: every prim under Rope{i} is the value a function of the          *)
(* configuration and i gives, the box of rope i is placed from rope i's    *)
(* own last link (the x, y, z it reads were bound in the same pass), and a *)
(* pass of the rope loop defines or changes prims under its own Rope{i}    *)
(* scope only.                                                             *)
(***************************************************************************)
Radial == Configured /\ SelectLayout(args.num_ropes) = "radial"
Last(q) == q[Len(q)]

\* the prims of rope i as a function of the configuration and i
AssemblyDescriptor(s, el, i) ==
    IF SelectLayout(s.numRopes) = "vertical"
    THEN (ScopePath(i) :> Xform)
      @@ (InstancerPath(i) :> VLinkInstancer(s, i))
      @@ (CapsulePath(i) :> Capsule(s, "Z"))
      @@ (JointInstancerPath(i) :> ChainJoints(s, i, "Z"))
      @@ (ChainJointPath(i) :> CableJoint(s, "Z"))
      @@ (PayloadAttachPath(i) :> VPayloadAttach(s, i))
      @@ (PayloadJointPath(i) :> CableJoint(s, "Z"))
      @@ (TableAttachPath(i) :> VTableAttach(s, i))
      @@ (TableJointPath(i) :> UniJoint(s))
    ELSE (ScopePath(i) :> Xform)
      @@ (InstancerPath(i) :> MLinkInstancer(s, el, i))
      @@ (CapsulePath(i) :> Capsule(s, "X"))
      @@ (JointInstancerPath(i) :> ChainJoints(s, i, "X"))
      @@ (ChainJointPath(i) :> CableJoint(s, "X"))
      @@ (PayloadAttachPath(i) :> MPayloadAttach(s, el, i))
      @@ (PayloadJointPath(i) :> CableJoint(s, "Z"))
      @@ (BoxPath(i) :>
            MBox(s, el, i, MLinkPosition(s, el, i, NumLinks(s) - 1)))
      @@ (BoxAttachPath(i) :> MBoxAttach(s, i))
      @@ (BoxJointPath(i) :> UniJoint(s))

C6_DependsOnIndexOnly ==
    /\ \A i \in RopesOnStage :
            LET descriptor == AssemblyDescriptor(self, args.elevation_angle, i)
            IN  \A q \in DOMAIN stage :
                    q[1] = RopeName(i) =>
                        q \in DOMAIN descriptor /\ stage[q] = descriptor[q]
    /\ \A i \in BoxesOnStage :
            /\ stage[InstancerPath(i)].positions # <<>>
            /\ stage[BoxPath(i)].translate =
                   VecAdd(Last(stage[InstancerPath(i)].positions),
                          MAlongRope(self, args.elevation_angle, i,
                              CapsuleHalf(self) + TimesScale(self.boxSize, self) \div 2))
    /\ (pc = "mBox" /\ lastLink # <<>>) =>
            /\ stage[InstancerPath(ropeInd)].positions # <<>>
            /\ lastLink[1] = Last(stage[InstancerPath(ropeInd)].positions)

RopePass == pc \in {"vLinks", "vChain", "vPayloadCon", "vTableCon",
                    "mLinks", "mChain", "mPayloadCon", "mBox", "mBoxCon"}
C6_WritesOwnScope ==
    RopePass =>
        \A q \in DOMAIN stage' :
            (q \notin DOMAIN stage \/ stage'[q] # stage[q]) => q[1] = RopeName(ropeInd)

ArrayLengths(g) ==
    {Len(g.protoIndices), Len(g.body0Indices), Len(g.body1Indices),
     Len(g.localPos0s), Len(g.localPos1s), Len(g.localRot0s), Len(g.localRot1s)}
LinkSideTargets(i, q) ==
    IF q = JointInstancerPath(i) THEN {stage[q].body0s, stage[q].body1s}
    ELSE IF q = PayloadAttachPath(i) THEN {stage[q].body1s}
    ELSE {stage[q].body0s}

\* C7: equal array lengths and own link collection, for every joint group
C7_ParallelArrays ==
    \A i \in RopesOnStage : \A q \in JointGroupPaths(i) :
        /\ Cardinality(ArrayLengths(stage[q])) = 1
        /\ LinkSideTargets(i, q) = {<<InstancerPath(i)>>}

C7_Witness ==
    \E i \in RopesOnStage :
        /\ i >= 1
        /\ Cardinality(JointGroupPaths(i)) = 3
        /\ Len(stage[JointInstancerPath(i)].protoIndices) >= 2

(***************************************************************************)
(* C8.  In every cable joint the limit stiffness of the slide DOF is 11    *)
(* times, so at least, its drive stiffness, and the limit damping is the   *)
(* drive damping.                                                          *)
(***************************************************************************)
JointsOnStage == {q \in DOMAIN stage : stage[q].type = "Joint"}
CableJointsOnStage == {q \in JointsOnStage : DOMAIN stage[q].drive # {}}

\* C8: limit stiffness = 11 * drive stiffness >= drive stiffness, equal damping
C8_LimitStifferThanDrive ==
    \A q \in CableJointsOnStage : \A d \in DOMAIN stage[q].drive :
        /\ d \in DOMAIN stage[q].physxLimit
        /\ stage[q].physxLimit[d].stiffness >= stage[q].drive[d].stiffness
        /\ stage[q].physxLimit[d].stiffness = 11 * stage[q].drive[d].stiffness
        /\ stage[q].physxLimit[d].damping = stage[q].drive[d].damping

C8_Witness ==
    /\ pc = "done"
    /\ \E i \in RopesOnStage :
            {ChainJointPath(i), PayloadJointPath(i)} \subseteq CableJointsOnStage

(***************************************************************************)
(* C9.  For every stage up-axis, the axis along which the vertical links   *)
(* are stacked, the axis that carries the table's thickness and the axis   *)
(* of the table-side anchor offset are all the up-axis.                    *)
(***************************************************************************)
AxisIndex(a) == CASE a = "X" -> 1 [] a = "Y" -> 2 [] a = "Z" -> 3
VStackAxes(i) ==
    {k \in 1..3 : stage[InstancerPath(i)].positions[2][k]
                      # stage[InstancerPath(i)].positions[1][k]}
TableThicknessAxes ==
    {k \in 1..3 : stage[tableTopPath].scale[k]
                      = R(TimesScale(self.tableThickness, self))}
TableAnchorAxes(i) ==
    {k \in 1..3 : stage[TableAttachPath(i)].localPos1s[1][k] # R(0)}

\* C9: stacking axis, table thickness axis and table anchor axis are the up-axis
C9_UpAxisConsistent ==
    \A i \in AssembliesBuilt :
        (Defined(stage, TableAttachPath(i)) /\ NumLinks(self) >= 2) =>
            /\ VStackAxes(i) = {AxisIndex(args.upAxis)}
            /\ TableThicknessAxes = {AxisIndex(args.upAxis)}
            /\ TableAnchorAxes(i) = {AxisIndex(args.upAxis)}

(***************************************************************************)
(* C10.  In the radial layout with N ropes, rope i lies at azimuth         *)
(* i * 360 / N degrees: its first link is at rho * (cos az, sin az)        *)
(* horizontally with rho = payloadRadius + (pitch / 2) * cos(elevation)    *)
(* > 0, so at horizontal distance rho from the payload's axis, and link j  *)
(* is the first link plus j * pitch * (cos az cos el, sin az cos el,       *)
(* sin el).                                                                *)
(***************************************************************************)
C10_RadialPlacement ==
    Radial =>
        \A i \in RopesOnStage :
            LET pos == stage[InstancerPath(i)].positions
                el == args.elevation_angle
                az == (i * 360) \div args.num_ropes
                pitch == linkHalfLength + 2 * linkRadius
                rho == RAdd(R(payloadRadius), MulCos(R(pitch \div 2), el))
                dir(d) == Vec3(MulCos(MulCos(R(d), az), el),
                               MulCos(MulSin(R(d), az), el),
                               MulSin(R(d), el))
            IN  pos # <<>> =>
                    /\ RNonNeg(rho) /\ rho # R(0)
                    /\ pos[1][1] = MulCos(rho, az)
                    /\ pos[1][2] = MulSin(rho, az)
                    /\ RAdd(RMul(pos[1][1], pos[1][1]), RMul(pos[1][2], pos[1][2]))
                           = RMul(rho, rho)
                    /\ \A j \in 0..(Len(pos) - 1) :
                           pos[j + 1] = VecAdd(pos[1], dir(j * pitch))

C10_Witness ==
    /\ Radial /\ args.num_ropes = 3 /\ args.elevation_angle = 60
    /\ \E i \in RopesOnStage :
            i >= 1 /\ Len(stage[InstancerPath(i)].positions) >= 3

(***************************************************************************)
(* _createCableJoint on its own: after the configuration, the joint        *)
(* archetype is created for any axis selector, at a path of the caller's   *)
(* choice.                                                                 *)
(***************************************************************************)
AxisSelectors == {"X", "Y", "Z"}
CableJointAt(axis) == <<"CableJoint" \o axis>>

\* lines 212-258, called with jointPath = CableJointAt(axis)
CallCreateCableJoint ==
    /\ pc = "payload"
    /\ \E axis \in AxisSelectors :
            /\ ~Defined(stage, CableJointAt(axis))
            /\ stage' = Define(stage, CableJointAt(axis), CableJoint(self, axis))
            /\ defineLog' = Append(defineLog, CableJointAt(axis))
    /\ UNCHANGED <<pc, args, self, ropeInd, lastLink>>

JointNext ==
    \/ Create
    \/ CallCreateCableJoint

JointSpec == Init /\ [][JointNext]_vars

(***************************************************************************)
(* C11.  For every axis selector, the cable joint has exactly one          *)
(* compliant-slide DOF, the translation along the selected axis, with the  *)
(* range [-1, 0.01] (low < high, not the slide-limit field) and the force  *)
(* cap 10 * payloadMass * 9.81; the two other translations are locked with *)
(* the range [0, 0]; the three rotations carry a limit without a range.    *)
(***************************************************************************)
TransDOF(axis) == "trans" \o axis
StructureJointPath(i, q) ==
    IF q = TableAttachPath(i) THEN TableJointPath(i) ELSE BoxJointPath(i)
TwistDOF(i, q) == IF q = TableAttachPath(i) THEN "rotZ" ELSE "rotX"
C12_TwistLocked ==
    \A i \in AssembliesBuilt : \A q \in StructureAttachPaths(i) :
        LET joint == stage[StructureJointPath(i, q)]
            twist == TwistDOF(i, q)
        IN  /\ \A d \in {"transX", "transY", "transZ", twist} :
                   joint.limit[d] = [hasRange |-> TRUE, low |-> 0, high |-> 0]
            /\ \A d \in {"rotX", "rotY", "rotZ"} \ {twist} :
                   joint.limit[d] = [hasRange |-> TRUE,
                                     low |-> -self.coneAngleLimit,
                                     high |-> self.coneAngleLimit]

(***************************************************************************)
(* C13.  The chain joints of an assembly connect link k (body0) to link    *)
(* k + 1 (body1) in increasing order of k, each with the anchors +half     *)
(* pitch and -half pitch along the slide axis, no lateral offset and the   *)
(* identity orientation on both sides.  As stated, k runs over             *)
(* [0, numLinks - 2); as amended, over [0, numLinks - 1).                  *)
(***************************************************************************)
ChainSlideAxis(i) ==
    CHOOSE a \in AxisSelectors : TransDOF(a) \in DOMAIN stage[ChainJointPath(i)].drive
AxisVector(a, d) == [k \in 1..3 |-> IF k = AxisIndex(a) THEN R(d) ELSE R(0)]
ChainGroupIs(i, count) ==
    LET group == stage[JointInstancerPath(i)]
        a == ChainSlideAxis(i)
        half == (self.linkHalfLength + 2 * self.linkRadius) \div 2
    IN  /\ group.body0s = <<InstancerPath(i)>>
        /\ group.body1s = <<InstancerPath(i)>>
        /\ group.body0Indices = [k \in 1..count |-> k - 1]
        /\ group.body1Indices = [k \in 1..count |-> k]
        /\ group.localPos0s = [k \in 1..count |-> AxisVector(a, half)]
        /\ group.localPos1s = [k \in 1..count |-> AxisVector(a, -half)]
        /\ group.localRot0s = [k \in 1..count |-> QuatIdentity]
        /\ group.localRot1s = [k \in 1..count |-> QuatIdentity]
ChainGroupsOnStage == {i \in RopeIndices : Defined(stage, JointInstancerPath(i))}

\* C13 as stated: k over [0, numLinks - 2)
C13_ChainUpToNumLinksMinus2 ==
    \A i \in ChainGroupsOnStage : ChainGroupIs(i, NumLinks(self) - 2)

\* C13 as amended: k over [0, numLinks - 1)
C13_ChainUpToNumLinksMinus1 ==
    \A i \in ChainGroupsOnStage : ChainGroupIs(i, NumLinks(self) - 1)

C13_Witness ==
    /\ Radial
    /\ \E i \in ChainGroupsOnStage :
           Len(stage[JointInstancerPath(i)].body0Indices) >= 2
    /\ \E i \in ChainGroupsOnStage \ {0} : TRUE

(***************************************************************************)
(* The rotation a quaternion product performs on a vector: the factors act *)
(* from the right-most to the left-most.  A rotation by t about (0, 0, 1)  *)
(* takes (x, y, z) to (x cos t - y sin t, x sin t + y cos t, z); one by t  *)
(* about (0, -1, 0) takes it to (x cos t - z sin t, y, x sin t + z cos t). *)
(***************************************************************************)
RNeg(u) == <<-u[1], -u[2]>>
RotateAbout(f, v) ==
    IF f.axis = <<0, 0, 1>>
    THEN Vec3(RAdd(MulCos(v[1], f.angle), RNeg(MulSin(v[2], f.angle))),
              RAdd(MulSin(v[1], f.angle), MulCos(v[2], f.angle)),
              v[3])
    ELSE Vec3(RAdd(MulCos(v[1], f.angle), RNeg(MulSin(v[3], f.angle))),
              v[2],
              RAdd(MulSin(v[1], f.angle), MulCos(v[3], f.angle)))
RECURSIVE Rotate(_, _)
Rotate(q, v) == IF q = <<>> THEN v ELSE RotateAbout(Head(q), Rotate(Tail(q), v))

(***************************************************************************)
(* C14.  Radial layout: the payload-attachment joint of every assembly has *)
(* body0 = payload with the anchor (payloadRadius cos az, payloadRadius    *)
(* sin az, 0) and the anchor orientation of the assembly's links, yaw by   *)
(* the azimuth then pitch by the elevation (not the identity unless both   *)
(* angles are 0), and body1 = link 0 with the anchor (-half pitch, 0, 0)   *)
(* and the identity orientation.  Vertical layout: both orientations are   *)
(* the identity and the payload anchor is the centre of its top face.      *)
(***************************************************************************)
PayloadAttachOnStage == {i \in RopeIndices : Defined(stage, PayloadAttachPath(i))}
Azimuth(i) == (360 * i) \div args.num_ropes
C14_PayloadAttachFrames ==
    \A i \in PayloadAttachOnStage :
        LET group == stage[PayloadAttachPath(i)]
            links == stage[InstancerPath(i)]
            half == (self.linkHalfLength + 2 * self.linkRadius) \div 2
            el == args.elevation_angle
            rot0 == group.localRot0s[1]
        IN  /\ group.body0s = <<payloadPath>>
            /\ group.body1s = <<InstancerPath(i)>>
            /\ group.body0Indices = <<0>>
            /\ group.body1Indices = <<0>>
            /\ Len(group.localRot0s) = 1
            /\ group.localRot1s = <<QuatIdentity>>
            /\ IF Radial
               THEN /\ group.localPos0s =
                         <<Vec3(MulCos(R(stage[payloadPath].radius), Azimuth(i)),
                                MulSin(R(stage[payloadPath].radius), Azimuth(i)),
                                R(0))>>
                    /\ group.localPos1s = <<VecI(-half, 0, 0)>>
                    /\ \A k \in DOMAIN links.orientations :
                           links.orientations[k] = rot0
                    /\ rot0 = QuatMul(calculate_orientation(Azimuth(i), <<0, 0, 1>>),
                                      calculate_orientation(el, <<0, -1, 0>>))
                    /\ (Azimuth(i) # 0 \/ el # 0) => rot0 # QuatIdentity
                    \* the anchor frame's X axis is the direction of the links
                    /\ Len(links.positions) >= 2 =>
                           links.positions[2] =
                               VecAdd(links.positions[1],
                                      Rotate(rot0, VecI(2 * half, 0, 0)))
               ELSE /\ rot0 = QuatIdentity
                    /\ group.localPos0s =
                         <<VecI(0, 0, stage[payloadPath].height \div 2)>>

C14_Witness ==
    /\ Radial
    /\ args.elevation_angle = 30
    /\ \E i \in PayloadAttachOnStage :
           /\ Azimuth(i) = 120
           /\ Len(stage[InstancerPath(i)].positions) >= 2

(***************************************************************************)
(* C15.  In every assembly each cable joint, the chain joint and the       *)
(* payload-attachment joint, has its compliant slide on the axis on which  *)
(* its link-side anchor offsets are non-zero, so both joints of one        *)
(* assembly slide along the same axis, the one the links extend along.     *)
(***************************************************************************)
AnchorAxes(v) == {a \in AxisSelectors : v[AxisIndex(a)] # R(0)}
SlideAxes(jointPath) ==
    {a \in AxisSelectors : TransDOF(a) \in DOMAIN stage[jointPath].drive}
C15_SlideAlongLinks ==
    \A i \in AssembliesBuilt :
        LET chain == stage[JointInstancerPath(i)]
            attach == stage[PayloadAttachPath(i)]
        IN  /\ \A k \in DOMAIN chain.localPos0s :
                   /\ AnchorAxes(chain.localPos0s[k]) = SlideAxes(ChainJointPath(i))
                   /\ AnchorAxes(chain.localPos1s[k]) = SlideAxes(ChainJointPath(i))
            /\ AnchorAxes(attach.localPos1s[1]) = SlideAxes(PayloadJointPath(i))
            /\ SlideAxes(PayloadJointPath(i)) = SlideAxes(ChainJointPath(i))

(***************************************************************************)
(* C16.  Vertical layout, numLinks >= 1: the two anchors of the            *)
(* structure-attachment joint are at the same height when built, i.e. the  *)
(* centre of the last link plus half a pitch is the centre of the table    *)
(* minus half the scaled table thickness.                                  *)
(***************************************************************************)
C16_TableAnchorsCoincide ==
    \A i \in AssembliesBuilt :
        (Defined(stage, TableAttachPath(i)) /\ NumLinks(self) >= 1) =>
            LET group == stage[TableAttachPath(i)]
                links == stage[InstancerPath(i)]
                linkCentre == links.positions[group.body0Indices[1] + 1]
                tableCentre == stage[tableTopPath].translate
            IN  VecAdd(linkCentre, group.localPos0s[1])[3]
                    = VecAdd(tableCentre, group.localPos1s[1])[3]

(***************************************************************************)
(* C17.  Every body is defined before any joint group that references it   *)
(* is emitted: the payload before each payload attachment, the table or    *)
(* the assembly's box before the assembly's structure attachment, and the  *)
(* assembly's link collection before its chain and attachment groups.      *)
(***************************************************************************)
DefinedBefore(body, k) == \E j \in 1..(k - 1) : defineLog[j] = body
BodiesOf(q) == SeqRange(stage[q].body0s) \cup SeqRange(stage[q].body1s)
ExpectedBodies(q) ==
    UNION {(IF q = JointInstancerPath(i) THEN {InstancerPath(i)} ELSE {})
           \cup (IF q = PayloadAttachPath(i)
                 THEN {payloadPath, InstancerPath(i)} ELSE {})
           \cup (IF q = TableAttachPath(i)
                 THEN {tableTopPath, InstancerPath(i)} ELSE {})
           \cup (IF q = BoxAttachPath(i)
                 THEN {BoxPath(i), InstancerPath(i)} ELSE {}) : i \in RopeIndices}
C17_BodiesBeforeJoints ==
    \A k \in DOMAIN defineLog :
        LET q == defineLog[k]
        IN  /\ stage[q].type = "PhysxPhysicsJointInstancer" =>
                   \A body \in BodiesOf(q) : DefinedBefore(body, k)
            /\ \A body \in ExpectedBodies(q) : DefinedBefore(body, k)

C17_Witness ==
    /\ pc = "done"
    /\ Radial
    /\ args.num_ropes = 3
    /\ \A i \in 0..2 : \E k \in DOMAIN defineLog : defineLog[k] = BoxAttachPath(i)

====
